---- MODULE Spec2Model ----
(***************************************************************************)
(* Keyboard registration of typing-tutor: src/util/keyboard.py             *)
(* (is_keyboard, discover_available_keyboards, monitor_keyboards_thread)   *)
(* run as the monitoring thread started by src/main.py (start), next to    *)
(* the Tk main loop of main.py (update_ui, check_game_status_and_exit).    *)
(*                                                                         *)
(* An InputDevice object is identified, while it is open, by its file      *)
(* descriptor: fdtab is the table of open descriptors.  A closed object    *)
(* that is still referenced (a ledger entry) has fd = -1.                  *)
(***************************************************************************)
EXTENDS Integers, Sequences, FiniteSets, TLC

-----------------------------------------------------------------------------
(* Bounds and program constants *)

\* number of player slots: the literal 2 of `current_player_registering > 2`
NumSlots == 2

\* size of the descriptor table: an open beyond it fails (EMFILE)
MaxFd == 6

\* events buffered in all device queues and the batch being processed
MaxPending == 2

-----------------------------------------------------------------------------
(* The environment: devices under /dev/input *)

\* event paths /dev/input/event1..3
Paths == {1, 2, 3}

\* evdev.list_devices(): the raw enumeration
RawListing == <<1, 2, 3>>

\* possible contents of /dev/input/by-id, each entry resolved to its event
\* path: two devices in an order of their own, two aliases of one device
ByIdListings == {<<2, 1>>, <<1, 1>>}

\* device.capabilities(): event type -> codes
Capabilities(p) ==
    IF p \in {1, 2}
    THEN [EV_MSC |-> {"MSC_SCAN"},
          EV_KEY |-> {"KEY_A", "KEY_Z", "KEY_SPACE", "KEY_ENTER", "KEY_1", "KEY_ESC"}]
    ELSE [EV_REL |-> {"REL_X", "REL_Y"},
          EV_KEY |-> {"BTN_LEFT", "BTN_RIGHT"}]

\* the events a device can produce: key release, press, auto-repeat, and a
\* non-key event
EventKinds ==
    { [type |-> "EV_KEY", value |-> 0], [type |-> "EV_KEY", value |-> 1],
      [type |-> "EV_KEY", value |-> 2], [type |-> "EV_MSC", value |-> 1] }

-----------------------------------------------------------------------------
(* Helpers on sequences used as ordered dicts *)

Range(s) == { s[i] : i \in 1..Len(s) }

RECURSIVE SeqFilterOut(_, _)
SeqFilterOut(s, drop) ==
    IF s = << >> THEN << >>
    ELSE IF Head(s) \in drop THEN SeqFilterOut(Tail(s), drop)
         ELSE <<Head(s)>> \o SeqFilterOut(Tail(s), drop)

-----------------------------------------------------------------------------
(* Descriptor table *)

NoFile == [path |-> 0, nonblock |-> FALSE, q |-> << >>]

IsOpenFd(tab, f) == f \in DOMAIN tab /\ tab[f].path # 0

\* the descriptor the next open returns: the lowest free one, 0 if none
LowestFree(tab) ==
    IF \E f \in DOMAIN tab : tab[f].path = 0
    THEN CHOOSE f \in DOMAIN tab :
            tab[f].path = 0 /\ \A g \in DOMAIN tab : tab[g].path = 0 => f <= g
    ELSE 0

\* dev.close() on every descriptor of fds
CloseFds(tab, fds) == [f \in DOMAIN tab |-> IF f \in fds THEN NoFile ELSE tab[f]]

\* the ledger after the objects with descriptors fds were closed: evdev's
\* close sets the object's fd to -1
MarkClosed(pk, fds) ==
    [s \in DOMAIN pk |-> IF pk[s].fd \in fds THEN [pk[s] EXCEPT !.fd = -1] ELSE pk[s]]

-----------------------------------------------------------------------------
(* is_keyboard *)

ReferenceKeys == {"KEY_A", "KEY_Z", "KEY_SPACE", "KEY_ENTER", "KEY_1"}

is_keyboard(p) ==
    LET caps == Capabilities(p) IN
    IF "EV_KEY" \notin DOMAIN caps THEN FALSE
    ELSE IF \E k \in ReferenceKeys : k \in caps["EV_KEY"] THEN TRUE
    ELSE FALSE

-----------------------------------------------------------------------------
(* discover_available_keyboards *)

\* A scan state: the descriptor table, by_id_devices as a sequence of
\* [path, fd] in insertion order, the descriptors this call opened that are
\* still open, and the paths whose open or classification failed.
KeysOf(items) == { items[i].path : i \in 1..Len(items) }

\* by_id_devices[p] = dev: a dict keeps the position of an existing key
DictPut(items, p, f) ==
    IF p \in KeysOf(items)
    THEN [i \in 1..Len(items) |->
            IF items[i].path = p THEN [path |-> p, fd |-> f] ELSE items[i]]
    ELSE Append(items, [path |-> p, fd |-> f])

\* one candidate: InputDevice(path), is_keyboard, record or close; any
\* exception is swallowed.  o is what the environment does to this attempt.
TryOpen(st, p, o) ==
    LET f == LowestFree(st.tab) IN
    IF o = "open" \/ f = 0
    THEN [st EXCEPT !.failed = @ \cup {p}]
    ELSE LET opened == [st EXCEPT !.tab[f] = [path |-> p, nonblock |-> FALSE, q |-> << >>],
                                  !.mine = @ \cup {f}]
         IN  IF o = "classify"
             THEN [opened EXCEPT !.failed = @ \cup {p}]
             ELSE IF is_keyboard(p)
                  THEN [opened EXCEPT !.by_id_devices = DictPut(@, p, f)]
                  ELSE [st EXCEPT !.tab[f] = NoFile]

\* what happens to an attempt on path p under the scan's fault
Outcome(fault, p) == IF fault.at = p /\ fault.kind \in {"open", "classify"}
                     THEN fault.kind ELSE "ok"

\* the loop over /dev/input/by-id
RECURSIVE ScanById(_, _, _, _)
ScanById(st, entries, i, fault) ==
    IF i > Len(entries) THEN st
    ELSE ScanById(TryOpen(st, entries[i], Outcome(fault, entries[i])),
                  entries, i + 1, fault)

\* the fallback loop with the try around the loop: the first failure ends it
RECURSIVE ScanRawAbort(_, _, _, _)
ScanRawAbort(st, listing, j, fault) ==
    IF j > Len(listing) THEN st
    ELSE LET p == listing[j] IN
         IF p \in KeysOf(st.by_id_devices)
         THEN ScanRawAbort(st, listing, j + 1, fault)
         ELSE IF Outcome(fault, p) # "ok" \/ LowestFree(st.tab) = 0
         THEN TryOpen(st, p, Outcome(fault, p))
         ELSE ScanRawAbort(TryOpen(st, p, "ok"), listing, j + 1, fault)

\* the fallback loop over evdev.list_devices()
RECURSIVE ScanRaw(_, _, _, _)
ScanRaw(st, listing, j, fault) ==
    IF j > Len(listing) THEN st
    ELSE LET p == listing[j]
             nxt == IF p \notin KeysOf(st.by_id_devices)
                    THEN TryOpen(st, p, Outcome(fault, p))
                    ELSE st
         IN  ScanRaw(nxt, listing, j + 1, fault)

\* the list of assigned paths left empty
AssignedPathsNone(pk) == {}

\* the paths of the ledger's devices
AssignedPaths(pk) == { pk[s].path : s \in DOMAIN pk }

\* the last loop: non-blocking mode for the unassigned, close for the assigned
RECURSIVE FilterAssigned(_, _, _, _, _)
FilterAssigned(st, k, assigned, fault, avail) ==
    IF k > Len(st.by_id_devices)
    THEN [tab |-> st.tab, available |-> avail, raised |-> FALSE,
          mine |-> st.mine, failed |-> st.failed]
    ELSE LET it == st.by_id_devices[k] IN
         IF it.path \notin assigned
         THEN IF fault.kind = "fcntl" /\ fault.at = k
              THEN [tab |-> st.tab, available |-> << >>, raised |-> TRUE,
                    mine |-> st.mine, failed |-> st.failed]
              ELSE FilterAssigned([st EXCEPT !.tab[it.fd].nonblock = TRUE],
                                  k + 1, assigned, fault, Append(avail, it.fd))
         ELSE FilterAssigned([st EXCEPT !.tab[it.fd] = NoFile, !.mine = @ \ {it.fd}],
                             k + 1, assigned, fault, avail)

discover_available_keyboards(tab, by_id, pk, fault) ==
    LET st0 == [tab |-> tab, by_id_devices |-> << >>, mine |-> {}, failed |-> {}]
        st1 == ScanById(st0, by_id, 1, fault)
        st2 == ScanRaw(st1, RawListing, 1, fault)
    IN  IF fault.kind = "listdir"
        THEN [tab |-> tab, available |-> << >>, raised |-> TRUE,
              mine |-> {}, failed |-> {}]
        ELSE FilterAssigned(st2, 1, AssignedPaths(pk), fault, << >>)

\* what the environment may do to one scan: nothing; /dev/input/by-id
\* removed between os.path.exists and os.listdir; one device that cannot
\* be opened (permission denied, vanished); one device whose capabilities
\* cannot be read; fcntl failing on the k-th discovered keyboard
ScanFaults ==
    {[kind |-> "ok", at |-> 0], [kind |-> "listdir", at |-> 0]}
    \cup { [kind |-> k, at |-> p] : k \in {"open", "classify"}, p \in Paths }
    \cup { [kind |-> "fcntl", at |-> k] : k \in 1..Len(RawListing) }

-----------------------------------------------------------------------------
(* State *)

VARIABLES
    by_id,                      \* the content of /dev/input/by-id
    fdtab,                      \* descriptor -> open device file
    pc,                         \* position of the monitoring thread
    is_running,                 \* the thread's parameter is_running
    current_player_registering, \* the thread's parameter
    player_keyboards,           \* the shared dict: slot -> [path, fd]
    open_devices,               \* the thread's dict, as its keys in order
    rlist,                      \* ready descriptors still to be read
    cur,                        \* descriptor being read (0: none)
    batch,                      \* events of dev.read() still to be processed
    lock,                       \* ui_update_lock: "free" or its holder
    after_queue,                \* callbacks scheduled with root.after
    label,                      \* the text of the message labels
    g_is_running,               \* main.py's global is_running
    mainloop,                   \* "running" or "quit"
    arrived,                    \* history: devices by first key-down
    scan                        \* outcome of the scan, in the state it returns to

vars == <<by_id, fdtab, pc, is_running, current_player_registering,
          player_keyboards, open_devices, rlist, cur, batch, lock,
          after_queue, label, g_is_running, mainloop, arrived, scan>>

NoScan == [done |-> FALSE, raised |-> FALSE, leaked |-> {}, failed |-> {},
           assigned |-> {}, available |-> << >>]

\* update_ui of main.py
update_ui(player_id, pk) ==
    IF player_id = 1 /\ 1 \notin DOMAIN pk
    THEN [kind |-> "prompt", player |-> 1, entries |-> << >>]
    ELSE IF player_id = 2 /\ 2 \notin DOMAIN pk
    THEN [kind |-> "prompt", player |-> 2, entries |-> << >>]
    ELSE [kind |-> "complete", player |-> 0,
          entries |-> [i \in 1..Cardinality(DOMAIN pk) |-> pk[i].path]]

Init ==
    /\ by_id \in ByIdListings
    /\ fdtab = [f \in 1..MaxFd |-> NoFile]
    /\ pc = "top"
    /\ is_running = TRUE
    /\ current_player_registering = 1
    /\ player_keyboards = << >>
    /\ open_devices = << >>
    /\ rlist = << >>
    /\ cur = 0
    /\ batch = << >>
    /\ lock = "free"
    /\ after_queue = << >>
    /\ label = update_ui(1, << >>)
    /\ g_is_running = TRUE
    /\ mainloop = "running"
    /\ arrived = << >>
    /\ scan = NoScan

-----------------------------------------------------------------------------
(* The monitoring thread: monitor_keyboards_thread *)

\* the comparison one too high
RegistrationCompleteLate(cpr) == cpr > NumSlots + 1

\* `current_player_registering > 2`
RegistrationComplete(cpr) == cpr > NumSlots

\* descriptors of objects nothing refers to any more.  The objects a scan
\* drops without closing them are reclaimed by the collector (Finalize)
\* before the thread's next step after the scan.  When an exception has
\* ended the thread function its local open_devices is dropped as well.
Unreferenced ==
    { f \in DOMAIN fdtab :
        /\ fdtab[f].path # 0
        /\ f \notin Range(open_devices) \/ pc = "crashed"
        /\ \A s \in DOMAIN player_keyboards : player_keyboards[s].fd # f }

\* the loop head: `while is_running:`, then under ui_update_lock
\* `if current_player_registering > 2: break`.  The lock is taken and
\* released within the step.
LoopTop ==
    /\ pc = "top"
    /\ Unreferenced = {}
    /\ is_running => lock = "free"
    /\ pc' = IF ~is_running THEN "teardown"
             ELSE IF RegistrationComplete(current_player_registering)
             THEN "teardown" ELSE "scan"
    /\ scan' = NoScan
    /\ cur' = 0
    /\ UNCHANGED <<by_id, fdtab, is_running, current_player_registering,
                   player_keyboards, open_devices, rlist, batch, lock,
                   after_queue, label, g_is_running, mainloop, arrived>>

\* fds_to_close: the keys of open_devices absent from the fresh scan
FdsToClose(od, available) == { f \in Range(od) : f \notin Range(available) }

\* open_devices after the diff: stale keys deleted, new keys appended
MergeDevices(od, available) ==
    LET kept == SeqFilterOut(od, FdsToClose(od, available))
    IN  kept \o SeqFilterOut(available, Range(kept))

\* one scan cycle: discover, close what is stale, add what is new, and
\* sleep when nothing is left to watch.  An exception of the scan leaves the
\* thread function: the thread is dead.
ScanCycle ==
    /\ pc = "scan"
    /\ \E fault \in ScanFaults :
         LET r == discover_available_keyboards(fdtab, by_id, player_keyboards, fault)
             stale == FdsToClose(open_devices, r.available)
             od == MergeDevices(open_devices, r.available)
         IN  IF r.raised
             THEN /\ fdtab' = r.tab
                  /\ pc' = "crashed"
                  /\ scan' = [done |-> TRUE, raised |-> TRUE, leaked |-> r.mine,
                              failed |-> r.failed,
                              assigned |-> AssignedPaths(player_keyboards),
                              available |-> << >>]
                  /\ UNCHANGED <<open_devices, player_keyboards>>
             ELSE /\ fdtab' = CloseFds(r.tab, stale)
                  /\ player_keyboards' = MarkClosed(player_keyboards, stale)
                  /\ open_devices' = od
                  /\ pc' = IF od = << >> THEN "top" ELSE "select"
                  /\ scan' = [done |-> TRUE, raised |-> FALSE,
                              leaked |-> r.mine \ Range(r.available),
                              failed |-> r.failed,
                              assigned |-> AssignedPaths(player_keyboards),
                              available |-> r.available]
    /\ UNCHANGED <<by_id, is_running, current_player_registering, rlist, cur,
                   batch, lock, after_queue, label, g_is_running, mainloop,
                   arrived>>

\* the entry left in the dict
DropDeviceForgotten(od, fd) == od

\* `del open_devices[fd]`
DropDevice(od, fd) == SeqFilterOut(od, {fd})

\* the ready subset, in the order of the list passed to select
RECURSIVE ReadyList(_, _)
ReadyList(tab, fds) ==
    IF fds = << >> THEN << >>
    ELSE IF tab[Head(fds)].q # << >>
         THEN <<Head(fds)>> \o ReadyList(tab, Tail(fds))
         ELSE ReadyList(tab, Tail(fds))

\* select.select(read_fds, [], [], 0.05) and its two except branches
Select ==
    /\ pc = "select"
    /\ Unreferenced = {}
    /\ \E o \in {"ok", "ValueError", "Exception"} :
         /\ o = "ok" => \A f \in Range(open_devices) : IsOpenFd(fdtab, f)
         /\ IF o = "ok"
            THEN /\ rlist' = ReadyList(fdtab, open_devices)
                 /\ pc' = "fdloop"
                 /\ UNCHANGED <<fdtab, open_devices, player_keyboards>>
            ELSE IF o = "ValueError"
            THEN /\ fdtab' = CloseFds(fdtab, Range(open_devices))
                 /\ player_keyboards' = MarkClosed(player_keyboards, Range(open_devices))
                 /\ open_devices' = << >>
                 /\ pc' = "top"
                 /\ UNCHANGED rlist
            ELSE /\ pc' = "top"
                 /\ UNCHANGED <<fdtab, open_devices, player_keyboards, rlist>>
    /\ scan' = NoScan
    /\ UNCHANGED <<by_id, is_running, current_player_registering, cur, batch,
                   lock, after_queue, label, g_is_running, mainloop, arrived>>

\* `for fd in rlist:` up to dev.read(): the batch of pending events, or the
\* OSError branch (close, delete, break: the loop variable fd still names
\* the failed descriptor); after the last descriptor the cycle ends with the
\* short sleep
ReadDevice ==
    /\ pc = "fdloop"
    /\ \E o \in {"ok", "OSError"} :
         IF rlist = << >>
         THEN /\ pc' = "top"
              /\ UNCHANGED <<fdtab, open_devices, player_keyboards, rlist, cur, batch>>
         ELSE LET fd == Head(rlist) IN
              IF fd \notin Range(open_devices)
              THEN /\ rlist' = Tail(rlist)
                   /\ UNCHANGED <<fdtab, open_devices, player_keyboards, pc, cur, batch>>
              ELSE IF o = "OSError"
              THEN /\ fdtab' = CloseFds(fdtab, {fd})
                   /\ player_keyboards' = MarkClosed(player_keyboards, {fd})
                   /\ open_devices' = DropDevice(open_devices, fd)
                   /\ cur' = fd
                   /\ rlist' = << >>
                   /\ pc' = "top"
                   /\ UNCHANGED batch
              ELSE IF fdtab[fd].q = << >>
              THEN \* BlockingIOError: pass
                   /\ rlist' = Tail(rlist)
                   /\ UNCHANGED <<fdtab, open_devices, player_keyboards, pc, cur, batch>>
              ELSE /\ batch' = fdtab[fd].q
                   /\ fdtab' = [fdtab EXCEPT ![fd].q = << >>]
                   /\ cur' = fd
                   /\ rlist' = Tail(rlist)
                   /\ pc' = "event"
                   /\ UNCHANGED <<open_devices, player_keyboards>>
    /\ scan' = NoScan
    /\ UNCHANGED <<by_id, is_running, current_player_registering, lock,
                   after_queue, label, g_is_running, mainloop, arrived>>

\* the test taking every event with a non-zero value for a press
IsKeyDownAnyValue(e) == e.value # 0

\* `event.type == ecodes.EV_KEY` and `data.keystate == data.key_down`
IsKeyDown(e) == e.type = "EV_KEY" /\ e.value = 1

\* `for event in dev.read():` one event: skipped unless it is a key press,
\* for which the lock is taken; after the last one the fd loop goes on
NextEvent ==
    /\ pc = "event"
    /\ IF batch = << >>
       THEN /\ pc' = "fdloop"
            /\ cur' = 0
            /\ UNCHANGED <<batch, lock>>
       ELSE IF IsKeyDown(Head(batch))
       THEN /\ lock = "free"
            /\ lock' = "monitor"
            /\ pc' = "assign"
            /\ UNCHANGED <<batch, cur>>
       ELSE /\ batch' = Tail(batch)
            /\ UNCHANGED <<pc, cur, lock>>
    /\ scan' = NoScan
    /\ UNCHANGED <<by_id, fdtab, is_running, current_player_registering,
                   player_keyboards, open_devices, rlist, after_queue, label,
                   g_is_running, mainloop, arrived>>

\* the guard without the test of the ledger's paths
MayAssignAnyDevice(cpr, path, pk) == cpr <= NumSlots

\* the guard of the assignment
MayAssign(cpr, path, pk) == cpr <= NumSlots /\ path \notin AssignedPaths(pk)

\* the write always going to slot 1
LedgerPutFirst(pk, slot, dev) ==
    [s \in DOMAIN pk \cup {1} |-> IF s = 1 THEN dev ELSE pk[s]]

\* player_keyboards[current_player_registering] = dev
LedgerPut(pk, slot, dev) ==
    [s \in DOMAIN pk \cup {slot} |-> IF s = slot THEN dev ELSE pk[s]]

\* the body of `with ui_update_lock:` for a key press
Assign ==
    /\ pc = "assign"
    /\ lock' = "free"
    /\ LET path == fdtab[cur].path
           cpr == current_player_registering
       IN  IF MayAssign(cpr, path, player_keyboards)
           THEN /\ player_keyboards' =
                      LedgerPut(player_keyboards, cpr, [path |-> path, fd |-> cur])
                /\ current_player_registering' = cpr + 1
                /\ after_queue' = Append(after_queue, cpr + 1)
                /\ IF RegistrationComplete(cpr + 1)
                   THEN \* is_running = False; break; break; loop test
                        /\ is_running' = FALSE
                        /\ batch' = << >>
                        /\ rlist' = << >>
                        /\ cur' = 0
                        /\ pc' = "top"
                   ELSE /\ batch' = Tail(batch)
                        /\ pc' = "event"
                        /\ UNCHANGED <<is_running, rlist, cur>>
           ELSE /\ batch' = Tail(batch)
                /\ pc' = "event"
                /\ UNCHANGED <<player_keyboards, current_player_registering,
                               after_queue, is_running, rlist, cur>>
    /\ scan' = NoScan
    /\ UNCHANGED <<by_id, fdtab, open_devices, label, g_is_running, mainloop,
                   arrived>>

\* after the loop: close open_devices.values(), then player_keyboards.values()
Teardown ==
    /\ pc = "teardown"
    /\ LET fds == Range(open_devices)
                  \cup { player_keyboards[s].fd : s \in DOMAIN player_keyboards }
       IN  /\ fdtab' = CloseFds(fdtab, fds)
           /\ player_keyboards' = MarkClosed(player_keyboards, fds)
    /\ pc' = "done"
    /\ scan' = NoScan
    /\ UNCHANGED <<by_id, is_running, current_player_registering, open_devices,
                   rlist, cur, batch, lock, after_queue, label, g_is_running,
                   mainloop, arrived>>

MonitorNext ==
    LoopTop \/ ScanCycle \/ Select \/ ReadDevice \/ NextEvent \/ Assign
    \/ Teardown

-----------------------------------------------------------------------------
(* The Tk main loop of main.py *)

\* a callback scheduled with root.after(0, update_ui, n) runs
RunUpdateUi ==
    /\ mainloop = "running"
    /\ after_queue # << >>
    /\ label' = update_ui(Head(after_queue), player_keyboards)
    /\ after_queue' = Tail(after_queue)
    /\ scan' = NoScan
    /\ UNCHANGED <<by_id, fdtab, pc, is_running, current_player_registering,
                   player_keyboards, open_devices, rlist, cur, batch, lock,
                   g_is_running, mainloop, arrived>>

\* check_game_status_and_exit, every 100 ms
CheckGameStatus ==
    /\ mainloop = "running"
    /\ mainloop' = IF ~g_is_running THEN "quit" ELSE "running"
    /\ scan' = NoScan
    /\ UNCHANGED <<by_id, fdtab, pc, is_running, current_player_registering,
                   player_keyboards, open_devices, rlist, cur, batch, lock,
                   after_queue, label, g_is_running, arrived>>

-----------------------------------------------------------------------------
(* The environment *)

RECURSIVE SumQueues(_, _)
SumQueues(tab, fds) ==
    IF fds = {} THEN 0
    ELSE LET f == CHOOSE g \in fds : TRUE
         IN  Len(tab[f].q) + SumQueues(tab, fds \ {f})

Pending == SumQueues(fdtab, DOMAIN fdtab) + Len(batch)

\* the device at path p produces event e: it is queued on every handle of
\* the device that the thread watches.  With track, the history variable
\* arrived records the order of the devices' first key presses.
DeviceEvent(track) ==
    /\ pc \notin {"done", "crashed"}
    /\ Pending < MaxPending
    /\ \E p \in Paths, e \in EventKinds :
      /\ \E f \in Range(open_devices) : fdtab[f].path = p
      /\ fdtab' = [f \in DOMAIN fdtab |->
                     IF f \in Range(open_devices) /\ fdtab[f].path = p
                     THEN [fdtab[f] EXCEPT !.q = Append(@, e)]
                     ELSE fdtab[f]]
      /\ arrived' = IF track /\ IsKeyDown(e) /\ p \notin Range(arrived)
                       /\ p \notin AssignedPaths(player_keyboards)
                    THEN Append(arrived, p) ELSE arrived
      /\ scan' = NoScan
      /\ UNCHANGED <<by_id, pc, is_running, current_player_registering,
                     player_keyboards, open_devices, rlist, cur, batch, lock,
                     after_queue, label, g_is_running, mainloop>>

\* the garbage collector finalises the unreferenced InputDevice objects
Finalize ==
    /\ Unreferenced # {}
    /\ fdtab' = CloseFds(fdtab, Unreferenced)
    /\ scan' = NoScan
    /\ UNCHANGED <<by_id, pc, is_running, current_player_registering,
                   player_keyboards, open_devices, rlist, cur, batch, lock,
                   after_queue, label, g_is_running, mainloop, arrived>>

Next ==
    MonitorNext \/ RunUpdateUi \/ CheckGameStatus \/ DeviceEvent(FALSE) \/ Finalize

Spec == Init /\ [][Next]_vars

\* the monitoring thread is an operating-system thread: it keeps running,
\* and so does the collector
FairSpec == Spec /\ WF_vars(MonitorNext) /\ WF_vars(Finalize)

\* tt.py, the single-window front-end, started in place of main.py.  Its
\* globals start as those of main.py do (poc_running is g_is_running) and
\* its status check is that of main.py; its update_ui differs.

\* the global current_player_registering of tt.py: the thread increments
\* its own parameter, no statement assigns the global
tt_current_player_registering == 1

\* the parameter list of tt.py's `def update_ui():`
tt_update_ui_params == << >>

\* the body of tt.py's update_ui, under ui_update_lock
tt_update_ui(cpr, pk) ==
    IF cpr = 1 THEN [kind |-> "prompt", player |-> 1, entries |-> << >>]
    ELSE IF cpr = 2 THEN [kind |-> "prompt", player |-> 2, entries |-> << >>]
    ELSE [kind |-> "complete", player |-> 0,
          entries |-> [i \in 1..Cardinality(DOMAIN pk) |-> pk[i].path]]

\* Tk runs the callback scheduled with root.after(0, update_ui, n) as
\* update_ui(n): a call with the wrong number of arguments raises TypeError
\* before the body runs, Tk reports it and goes on
RunUpdateUiTt ==
    /\ mainloop = "running"
    /\ after_queue # << >>
    /\ after_queue' = Tail(after_queue)
    /\ LET args == <<Head(after_queue)>> IN
       IF Len(args) # Len(tt_update_ui_params)
       THEN UNCHANGED <<label, g_is_running>>
       ELSE /\ lock = "free"
            /\ label' = tt_update_ui(tt_current_player_registering, player_keyboards)
            /\ g_is_running' = (g_is_running /\ tt_current_player_registering <= 2)
    /\ scan' = NoScan
    /\ UNCHANGED <<by_id, fdtab, pc, is_running, current_player_registering,
                   player_keyboards, open_devices, rlist, cur, batch, lock,
                   mainloop, arrived>>

NextTt ==
    MonitorNext \/ RunUpdateUiTt \/ CheckGameStatus \/ DeviceEvent(FALSE) \/ Finalize

SpecTt == Init /\ [][NextTt]_vars

\* the same program with the arrival order of first key presses recorded
NextOrder ==
    MonitorNext \/ RunUpdateUi \/ CheckGameStatus \/ DeviceEvent(TRUE) \/ Finalize

SpecOrder == Init /\ [][NextOrder]_vars

-----------------------------------------------------------------------------
(* Properties *)

Slots == DOMAIN player_keyboards

\* the event the thread is processing
Processing == pc \in {"event", "assign"} /\ batch # << >>

\* an entry is the same object after a step: it may only have been closed
SameEntry(old, new) == new = old \/ new = [old EXCEPT !.fd = -1]

\* C1: the ledger holds exactly the slots 1..current_player_registering-1,
\* no two slots hold devices with the same path, and every step keeps the
\* entries written so far and adds at most the one slot
\* current_player_registering, advancing the counter by one.
C1_LedgerGrowsInOrder ==
    /\ [](/\ Slots = 1..(current_player_registering - 1)
          /\ \A s, t \in Slots :
               player_keyboards[s].path = player_keyboards[t].path => s = t)
    /\ [][/\ \A s \in Slots :
               /\ s \in DOMAIN player_keyboards'
               /\ SameEntry(player_keyboards[s], player_keyboards'[s])
          /\ \/ /\ DOMAIN player_keyboards' = Slots
                /\ current_player_registering' = current_player_registering
             \/ /\ DOMAIN player_keyboards' = Slots \cup {current_player_registering}
                /\ current_player_registering' = current_player_registering + 1]_vars

\* both slots were filled, one after the other, and the thread has ended
C1_Witness == Slots = {1, 2} /\ current_player_registering = 3 /\ pc = "done"

\* C2 (as claimed): slots fill in the order in which the devices' first key
\* presses arrived: if a's first press arrived before b's and b holds a
\* slot, then a holds a lower slot.
C2_ArrivalOrder ==
    \A i, j \in 1..Len(arrived) :
      (i < j /\ arrived[j] \in AssignedPaths(player_keyboards)) =>
         \E s, t \in Slots :
            /\ player_keyboards[s].path = arrived[i]
            /\ player_keyboards[t].path = arrived[j]
            /\ s < t

\* C3: while the thread processes an event that is not a key event with the
\* pressed value, no step changes the ledger, the slot counter or the
\* running flag, and no notification is scheduled.
C3_OnlyPressesCount ==
    [][(Processing /\ ~(Head(batch).type = "EV_KEY" /\ Head(batch).value = 1)) =>
          /\ player_keyboards' = player_keyboards
          /\ current_player_registering' = current_player_registering
          /\ is_running' = is_running
          /\ Len(after_queue') <= Len(after_queue)
          /\ pc' = "event"]_vars

\* an auto-repeat and a release are the batch being processed, one slot is
\* filled and the device of these events is not the one that filled it
C3_Witness ==
    /\ pc = "event"
    /\ Len(batch) = 2
    /\ Head(batch) = [type |-> "EV_KEY", value |-> 2]
    /\ batch[2] = [type |-> "EV_KEY", value |-> 0]
    /\ Slots = {1}
    /\ fdtab[cur].path \notin AssignedPaths(player_keyboards)

\* C4: while the thread processes a key press of a device whose path is in
\* the ledger, no step changes the ledger or the slot counter.
C4_AssignedDeviceInert ==
    [][(/\ Processing
        /\ Head(batch).type = "EV_KEY" /\ Head(batch).value = 1
        /\ fdtab[cur].path \in AssignedPaths(player_keyboards)) =>
          /\ player_keyboards' = player_keyboards
          /\ current_player_registering' = current_player_registering]_vars

\* the second press of one batch is under the lock, its device took slot 1
\* with the first press, and slot 2 is still free
C4_Witness ==
    /\ pc = "assign"
    /\ Len(batch) = 1
    /\ Slots = {1}
    /\ player_keyboards[1] = [path |-> fdtab[cur].path, fd |-> cur]

\* C5: once both slots are filled no step scans, opens a device, waits in
\* select or writes the ledger, and the thread ends: its only moves are from
\* the loop head to the teardown and from the teardown to the end, and the
\* next of them is always enabled.
C5_CompleteStops ==
    /\ [][Slots = {1, 2} =>
            /\ ~ScanCycle
            /\ ~Select
            /\ \A f \in DOMAIN fdtab : fdtab[f].path = 0 => fdtab'[f].path = 0
            /\ DOMAIN player_keyboards' = Slots
            /\ \A s \in Slots : SameEntry(player_keyboards[s], player_keyboards'[s])
            /\ pc' # pc => \/ pc = "top" /\ pc' = "teardown"
                           \/ pc = "teardown" /\ pc' = "done"]_vars
    /\ [](Slots = {1, 2} =>
            \/ pc = "top" /\ ENABLED LoopTop
            \/ pc = "teardown" /\ ENABLED Teardown
            \/ pc = "done")

\* the thread has ended with both slots filled and no device left to watch
C5_Witness ==
    /\ Slots = {1, 2}
    /\ pc = "done"
    /\ ~is_running
    /\ \A f \in DOMAIN fdtab : fdtab[f].path = 0

KeyboardPaths == { p \in Paths : "KEY_A" \in Capabilities(p)["EV_KEY"] }

\* C7: when a scan returns, every keyboard whose path is not in the ledger
\* and whose open and classification did not fail has a handle in the
\* mapping, whatever failed for the other candidates.
C7_OpenFailureSkipsOne ==
    (scan.done /\ ~scan.raised) =>
       \A p \in KeyboardPaths :
          (p \notin scan.assigned /\ p \notin scan.failed) =>
             \E f \in Range(open_devices) :
                fdtab[f].path = p /\ fdtab[f].nonblock

\* a scan in which event1 could not be opened returned event2 alone
C7_Witness ==
    /\ scan.done /\ ~scan.raised
    /\ scan.failed = {1}
    /\ scan.leaked = {}
    /\ scan.assigned = {}
    /\ Len(open_devices) = 1
    /\ fdtab[open_devices[1]].path = 2

\* C8: the step in which reading a ready device fails leaves the thread in
\* its loop with the flag set, assigns no slot, closes the handle and removes
\* it from open_devices, and keeps every other handle open and watched.
C8_ReadErrorRecovers ==
    [][(pc = "fdloop" /\ rlist # << >> /\ pc' = "top") =>
          LET fd == Head(rlist) IN
          /\ is_running'
          /\ current_player_registering' = current_player_registering
          /\ current_player_registering' <= 2
          /\ DOMAIN player_keyboards' = Slots
          /\ fdtab'[fd].path = 0
          /\ fd \notin Range(open_devices')
          /\ \A g \in Range(open_devices) \ {fd} :
                g \in Range(open_devices') /\ fdtab'[g] = fdtab[g]]_vars

\* a read has failed: its descriptor is closed and gone from open_devices,
\* the other device is still watched and no slot is filled
C8_Witness ==
    /\ pc = "top"
    /\ cur # 0
    /\ fdtab[cur].path = 0
    /\ cur \notin Range(open_devices)
    /\ Len(open_devices) = 1
    /\ is_running
    /\ Slots = {}

\* C9 (as claimed): the monitoring thread never closes a device held in the
\* ledger.
C9_LedgerHandlesStayOpen ==
    \A s \in Slots :
       player_keyboards[s].fd # -1 /\ IsOpenFd(fdtab, player_keyboards[s].fd)

\* C10 (as claimed): the flag the monitoring thread clears on completion is
\* the flag the foreground status check reads.
C10_SingleRunningFlag == ~is_running => ~g_is_running

\* the queue holds a key press
HasPress(q) == \E i \in 1..Len(q) : q[i].type = "EV_KEY" /\ q[i].value = 1

\* C11 (as claimed): while a slot is free, a key press of an unassigned
\* keyboard that arrived between two waits is not lost by the scan cycle that
\* follows: after the cycle the press is still in the queue of the handle the
\* thread watches for that device.
C11_KeyDownNotLost ==
    [][\A f \in Range(open_devices) :
          (/\ pc = "scan"
           /\ is_running
           /\ current_player_registering <= NumSlots
           /\ IsOpenFd(fdtab, f)
           /\ fdtab[f].path \notin { player_keyboards[s].path : s \in Slots }
           /\ HasPress(fdtab[f].q)
           /\ pc' # "crashed") =>
             \E g \in Range(open_devices') :
                /\ fdtab'[g].path = fdtab[f].path
                /\ HasPress(fdtab'[g].q)]_vars

\* C12 (as claimed): the foreground reads the ledger only under the lock, so
\* never while the monitoring thread is writing it: no step in which
\* update_ui runs is taken while the monitoring thread holds ui_update_lock
\* for an assignment it is about to write.
C12_ReadsUnderLock ==
    [][RunUpdateUi =>
         ~(/\ lock = "monitor"
           /\ MayAssign(current_player_registering, fdtab[cur].path,
                        player_keyboards))]_vars

\* C13 (as claimed): an InputDevice held in a ledger slot is not a member of
\* the working set open_devices.
C13_ExclusiveOwner ==
    \A s \in Slots : player_keyboards[s].fd \notin Range(open_devices)

\* C14 (as claimed): whenever the monitoring loop has been left, the ledger
\* is full or the running flag is cleared.
C14_LoopEndsOnlyComplete ==
    pc \in {"teardown", "done", "crashed"} =>
       (current_player_registering > NumSlots \/ ~is_running)

\* C15 (as claimed): once the monitoring thread has stopped running, by the
\* end of its function or by an exception, no handle of the working set
\* open_devices is open.
C15_ExitClosesWorkingSet ==
    pc \in {"done", "crashed"} =>
       \A f \in Range(open_devices) : ~IsOpenFd(fdtab, f)

\* C16 (as claimed): a step in which the select call fails reads no device
\* and assigns no slot, closes every handle of the working set and empties
\* the working set, and leaves the thread in its loop.
C16_SelectErrorDiscardsAll ==
    [][(pc = "select" /\ pc' = "top") =>
          /\ batch' = batch /\ rlist' = rlist
          /\ player_keyboards' = player_keyboards
          /\ current_player_registering' = current_player_registering
          /\ is_running'
          /\ \A f \in Range(open_devices) : fdtab'[f].path = 0
          /\ open_devices' = << >>]_vars

\* C17 (as claimed): the notification of an assignment is scheduled after
\* the lock has been released: no step that appends to the queue of
\* root.after is taken while ui_update_lock is held.
C17_ScheduledOutsideLock ==
    [][Len(after_queue') > Len(after_queue) => lock = "free"]_vars

\* the presentation state that agrees with the arbitrator: the prompt for
\* the next slot while one is free, the ledger's devices in slot order after
LabelAgrees ==
    IF current_player_registering <= NumSlots
    THEN label.kind = "prompt" /\ label.player = current_player_registering
    ELSE /\ label.kind = "complete"
         /\ label.entries = [i \in 1..NumSlots |-> player_keyboards[i].path]

\* C18 (as claimed): the notifications waiting to be delivered are the
\* next-slot values of the latest insertions, in the order of the
\* insertions, and once the last notification has been delivered the
\* presentation agrees with the ledger and the slot counter.
C18_NotificationsAgree ==
    /\ \A i \in 1..Len(after_queue) :
          after_queue[i] = current_player_registering - (Len(after_queue) - i)
    /\ Len(after_queue) < current_player_registering
    /\ after_queue = << >> => LabelAgrees

\* the paths of the handles in the mapping the last scan returned
ReturnedPaths == { fdtab[f].path : f \in Range(scan.available) }

\* C19: when a scan returns, every handle of the returned mapping is open,
\* in non-blocking mode and of a keyboard whose path is the path of no ledger
\* entry, no two returned handles have the same path, and every keyboard
\* that is not in the ledger and whose open and classification did not fail
\* has a handle in the mapping.
C19_ScanResultExact ==
    (scan.done /\ ~scan.raised) =>
       /\ \A f \in Range(scan.available) :
             /\ IsOpenFd(fdtab, f)
             /\ fdtab[f].nonblock
             /\ fdtab[f].path \in KeyboardPaths
             /\ \A s \in Slots : player_keyboards[s].path # fdtab[f].path
       /\ \A i, j \in 1..Len(scan.available) :
             fdtab[scan.available[i]].path = fdtab[scan.available[j]].path => i = j
       /\ \A p \in KeyboardPaths :
             ((\A s \in Slots : player_keyboards[s].path # p) /\ p \notin scan.failed)
                => p \in ReturnedPaths

\* with event1 in slot 1 and listed under two aliases as well as by the raw
\* enumeration, a scan has returned one handle, that of event2
C19_Witness ==
    /\ scan.done /\ ~scan.raised
    /\ by_id = <<1, 1>>
    /\ Slots = {1}
    /\ player_keyboards[1].path = 1
    /\ scan.failed = {}
    /\ Len(scan.available) = 1
    /\ ReturnedPaths = {2}

\* the descriptors of the ledger's devices
LedgerFds == { player_keyboards[s].fd : s \in Slots }

\* C20 (as claimed): when the thread is about to wait in select, every key
\* of open_devices is the descriptor of an open, non-blocking, unassigned
\* handle and no two of them have the same path; and when a scan cycle has
\* done its diff, the open handles outside the ledger are exactly those of
\* the mapping the scan returned.
C20_WorkingSetWellFormed ==
    /\ pc = "select" =>
          /\ \A f \in Range(open_devices) :
                IsOpenFd(fdtab, f) /\ fdtab[f].nonblock /\ f \notin LedgerFds
          /\ \A i, j \in 1..Len(open_devices) :
                fdtab[open_devices[i]].path = fdtab[open_devices[j]].path => i = j
    /\ (scan.done /\ ~scan.raised) =>
          /\ open_devices = scan.available
          /\ { f \in DOMAIN fdtab : fdtab[f].path # 0 /\ f \notin LedgerFds }
                = Range(scan.available)

====
